---- MODULE Spec2Model ----
(***************************************************************************)
(* Chat relay of src/bin/main.rs: the accept loop, the per-connection      *)
(* task (authenticate, register, announce, spawn writer and reader, join,  *)
(* announce departure), the writer and reader tasks, route_message and     *)
(* broadcast_system over the shared Clients map.                           *)
(*                                                                         *)
(* src/bin/main2.rs is a variant whose connection task does not compile    *)
(* (writer, clients and username are used after they were moved into the   *)
(* reader task), so it has no behaviour of its own to model; its           *)
(* route_message and the arms of its reader loop are modelled and applied  *)
(* to the same map (bin = "main2").                                        *)
(*                                                                         *)
(* A handle (the mpsc channel created by a connection) is named by the     *)
(* number of the connection that created it.  Every access to the map is   *)
(* made with the tokio Mutex held and no await inside the critical         *)
(* section (UnboundedSender::send never suspends), so each critical        *)
(* section is one action of Spec and SpecRouter.  SpecLock takes the same  *)
(* critical sections apart: acquiring the lock, each turn of an iteration  *)
(* under the guard and dropping the guard are steps of their own.          *)
(*                                                                         *)
(* cred and spoof record what the peers sent and the server discarded (the *)
(* credential of the first frame, a "from" member of a chat frame); no     *)
(* action reads them.                                                      *)
(***************************************************************************)
EXTENDS Naturals, Sequences, FiniteSets, TLC

\* Bounds of the model: connection slots, connections the accept loop takes
\* in a run, chat frames read in a run (all connections together), and chat
\* frames read in a run of the lock-level specification SpecLock.
NSess == 3
MaxConn == 2
MaxFrames == 2
MaxLockFrames == 1

Sess == 1..NSess

\* Option<String>: <<>> is None, <<x>> is Some(x).
None == <<>>
Some(x) == <<x>>

SYSTEM == "SYSTEM"

\* Credentials a peer may present in {"token": t}.  The three match arms of
\* extract_username_from_message differ only in the names, so the peer of
\* the first connection draws from the first credential, the second from
\* the first two, every later one from all three; "token-mallory", "SYSTEM"
\* and "token-SYSTEM" are credentials no arm matches.
Tokens(s) ==
    {"token-mallory", "SYSTEM", "token-SYSTEM"} \cup
    (IF s = 1 THEN {"token-alice"}
     ELSE IF s = 2 THEN {"token-alice", "token-bob"}
     ELSE {"token-alice", "token-bob", "token-charlie"})

\* First frames a peer may send: read.next() of main.rs:47.
\*   none     the stream ended before any frame      (None)
\*   err      the transport reported an error        (Some(Err(_)))
\*   binary   a frame that is not Message::Text      (Some(Ok(Binary/Ping/..)))
\*   text     Message::Text(body); body is <<"junk">> (not JSON),
\*            <<"notoken">> (JSON without a string "token"), or <<"token", t>>
FirstFrames(s) ==
    {[kind |-> "none", body |-> <<>>],
     [kind |-> "err", body |-> <<>>],
     [kind |-> "binary", body |-> <<>>],
     [kind |-> "text", body |-> <<"junk">>],
     [kind |-> "text", body |-> <<"notoken">>]}
    \cup {[kind |-> "text", body |-> <<"token", t>>] : t \in Tokens(s)}

extract_username_StripPrefix(text) ==
    IF Len(text) = 2 /\ text[1] = "token"
    THEN CASE text[2] = "token-alice" -> Some("alice")
           [] text[2] = "token-bob" -> Some("bob")
           [] text[2] = "token-charlie" -> Some("charlie")
           [] text[2] = "token-mallory" -> Some("mallory")
           [] text[2] = "token-SYSTEM" -> Some("SYSTEM")
           [] OTHER -> None
    ELSE None

extract_username_Fallback(text) ==
    IF Len(text) = 2 /\ text[1] = "token"
    THEN CASE text[2] = "token-alice" -> Some("alice")
           [] text[2] = "token-bob" -> Some("bob")
           [] text[2] = "token-charlie" -> Some("charlie")
           [] OTHER -> Some("anonymous")
    ELSE None

\* fn extract_username_from_message(text) -> Option<String>
extract_username_from_message(text) ==
    IF Len(text) = 2 /\ text[1] = "token"
    THEN CASE text[2] = "token-alice" -> Some("alice")
           [] text[2] = "token-bob" -> Some("bob")
           [] text[2] = "token-charlie" -> Some("charlie")
           [] OTHER -> None
    ELSE None

Users == {"alice", "bob", "charlie"}

\* Values of ChatMessage.to a peer may send.
Targets == {None} \cup {Some(u) : u \in Users \cup {"nobody"}}

\* Control notices written during authentication.
AuthSuccess == [type |-> "auth_success", message |-> "Authenticated"]
AuthFailed == [type |-> "auth_failed", message |-> "Invalid token"]

VARIABLES
    pc,        \* position of each connection task
    username,  \* the identity of each connection ("" before authentication)
    clients,   \* the Clients map: identity -> handle
    queue,     \* the payloads waiting in each connection's mpsc channel
    wpc,       \* position of each writer task
    rpc,       \* position of each reader task
    out,       \* the frames each connection handed to write.send, in order
    nread,     \* chat frames each reader task has read
    nJoined,   \* "joined" announcements made by each connection task
    nLeft,     \* "left" announcements made by each connection task
    lastReg,   \* per identity, the connection that inserted it last (0: none)
    bin,       \* the binary that runs: "main" (main.rs) or "main2" (main2.rs)
    cred,      \* the credential each peer presented in its first frame ("": none)
    spoof,     \* a frame was read whose "from" named another identity than its sender's
    crit       \* the tasks inside a critical section of the map's Mutex (SpecLock)

vars == <<pc, username, clients, queue, wpc, rpc, out, nread, nJoined, nLeft, lastReg, bin, cred, spoof, crit>>

\* struct ServerMessage { from, to, content }.  A payload on a channel is the
\* serde_json text of one ServerMessage, which has exactly these three
\* fields; the record stands for that text.
ServerMessage(from, to, content) == [from |-> from, to |-> to, content |-> content]

\* The receiving half of connection h's channel is alive: rx is owned by the
\* connection task until the writer task is spawned, then by the writer task,
\* and is dropped when the writer task returns.
RxAlive(h) == wpc[h] # "done"

\* q with m appended n times
RECURSIVE Rep(_, _, _)
Rep(q, m, n) == IF n = 0 THEN q ELSE Rep(Append(q, m), m, n - 1)

SendAll_Front(keys, m) ==
    [h \in Sess |->
        IF wpc[h] # "done" /\ \E u \in keys : clients[u] = h
        THEN <<m>> \o queue[h]
        ELSE queue[h]]

\* tx.send(m) for every entry of the map whose key is in keys; a send on a
\* channel whose receiver was dropped returns Err, which `let _ =` discards.
SendAll(keys, m) ==
    [h \in Sess |->
        IF RxAlive(h)
        THEN Rep(queue[h], m, Cardinality({u \in keys : clients[u] = h}))
        ELSE queue[h]]

\* HashMap::new, HashMap::insert and HashMap::remove
EmptyMap == [x \in {} |-> 0]
MapInsert_KeepOld(map, k, v) ==
    [x \in DOMAIN map \cup {k} |-> IF x \in DOMAIN map THEN map[x] ELSE v]
MapInsert(map, k, v) == [x \in DOMAIN map \cup {k} |-> IF x = k THEN v ELSE map[x]]
MapRemove_Keep(map, k) == map
MapRemove(map, k) == [x \in DOMAIN map \ {k} |-> map[x]]

Init ==
    /\ pc = [s \in Sess |-> "idle"]
    /\ username = [s \in Sess |-> ""]
    /\ clients = EmptyMap
    /\ queue = [s \in Sess |-> <<>>]
    /\ wpc = [s \in Sess |-> "idle"]
    /\ rpc = [s \in Sess |-> "idle"]
    /\ out = [s \in Sess |-> <<>>]
    /\ nread = [s \in Sess |-> 0]
    /\ nJoined = [s \in Sess |-> 0]
    /\ nLeft = [s \in Sess |-> 0]
    /\ lastReg = [u \in Users |-> 0]
    /\ bin = "main"
    /\ cred = [s \in Sess |-> ""]
    /\ spoof = FALSE
    /\ crit = EmptyMap

broadcast_system_SkipSubject(text) ==
    SendAll({u \in DOMAIN clients : u # text[1]}, ServerMessage(SYSTEM, None, text))

\* async fn broadcast_system(clients, text): one SYSTEM message, to = None,
\* sent to every value of the map, with the lock held.
broadcast_system(text) == SendAll(DOMAIN clients, ServerMessage(SYSTEM, None, text))

route_message_ToAll(msg) ==
    IF msg.to # None
    THEN LET target == msg.to[1]
         IN IF target \in DOMAIN clients THEN SendAll({target}, msg) ELSE queue
    ELSE SendAll(DOMAIN clients, msg)

route_message_CopyToSender(msg) ==
    IF msg.to # None
    THEN LET target == msg.to[1]
         IN IF target \in DOMAIN clients
            THEN SendAll({target, msg.from} \cap DOMAIN clients, msg)
            ELSE queue
    ELSE SendAll({u \in DOMAIN clients : u # msg.from}, msg)

\* async fn route_message(clients, msg), with the lock held throughout.
route_message(msg) ==
    IF msg.to # None
    THEN LET target == msg.to[1]
         IN IF target \in DOMAIN clients THEN SendAll({target}, msg) ELSE queue
    ELSE SendAll({u \in DOMAIN clients : u # msg.from}, msg)

\* main2.rs, async fn route_message(clients, msg): as above, but a directed
\* message whose target is not in the map is answered with a SYSTEM message
\* on the handle found under the sender's identity.
route_message2(msg) ==
    IF msg.to # None
    THEN LET target == msg.to[1]
         IN IF target \in DOMAIN clients
            THEN SendAll({target}, msg)
            ELSE IF msg.from \in DOMAIN clients
                 THEN SendAll({msg.from},
                              ServerMessage(SYSTEM, Some(msg.from),
                                            <<"User '", target, "' not found or offline">>))
                 ELSE queue
    ELSE SendAll({u \in DOMAIN clients : u # msg.from}, msg)

\* main2.rs, the Err(e) arm of the reader loop: a SYSTEM message on the
\* handle found under the reader's identity.
decode_error_echo(user) ==
    IF user \in DOMAIN clients
    THEN SendAll({user}, ServerMessage(SYSTEM, Some(user), <<"Invalid message format">>))
    ELSE queue

\* Frames a peer may send after authentication: read.next() of main.rs:104.
\* A well-formed text frame decodes to ChatMessage { to, content }; the peer
\* of connection s numbers its payloads, so the k-th frame of connection s
\* carries content <<"s", "k">>.  The JSON object may have members that
\* ChatMessage has not, which serde drops; one is modelled, "from", absent
\* or naming a sender.
FromFields == {None, Some(SYSTEM), Some("bob")}

ChatFrames(s) ==
    {[kind |-> "binary"], [kind |-> "malformed"]}
    \cup {[kind |-> "chat", to |-> t, from |-> c,
           content |-> <<ToString(s), ToString(nread[s] + 1)>>] :
              t \in Targets, c \in FromFields}

\* The chat frame f names a sender other than the identity of connection s.
Spoofs(s, f) == f.kind = "chat" /\ f.from # None /\ f.from # Some(username[s])

\* Connections the accept loop has taken so far.
Accepted == {s \in Sess : pc[s] # "idle"}

\* listener.accept() then tokio::spawn of the connection task, in the order
\* of the slots; accept_async either upgrades the stream or fails, and then
\* the task returns.
Accept(s) ==
    /\ pc[s] = "idle"
    /\ Accepted = 1..(s - 1)
    /\ s <= MaxConn
    /\ \E handshake \in BOOLEAN :
          pc' = [pc EXCEPT ![s] = IF handshake THEN "auth" ELSE "done"]
    /\ UNCHANGED <<username, clients, queue, wpc, rpc, out, nread, nJoined, nLeft, lastReg, bin, cred, spoof, crit>>

\* The string under "token" in the first frame f, "" when there is none.
Credential(f) == IF f.kind = "text" /\ Len(f.body) = 2 THEN f.body[2] ELSE ""

\* The authentication match of the connection task on its first frame f.
AuthStep(s, f) ==
    /\ pc[s] = "auth"
    /\ IF f.kind = "text"
       THEN LET user == extract_username_from_message(f.body)
            IN IF user # None
               THEN /\ out' = [out EXCEPT ![s] = Append(@, AuthSuccess)]
                    /\ username' = [username EXCEPT ![s] = user[1]]
                    /\ pc' = [pc EXCEPT ![s] = "insert"]
               ELSE /\ out' = [out EXCEPT ![s] = Append(@, AuthFailed)]
                    /\ pc' = [pc EXCEPT ![s] = "done"]
                    /\ UNCHANGED username
       ELSE /\ pc' = [pc EXCEPT ![s] = "done"]
            /\ UNCHANGED <<out, username>>
    /\ cred' = [cred EXCEPT ![s] = Credential(f)]
    /\ UNCHANGED <<clients, queue, wpc, rpc, nread, nJoined, nLeft, lastReg, bin, spoof, crit>>

Authenticate(s) == \E f \in FirstFrames(s) : AuthStep(s, f)

Register_AnnounceFirst(s) ==
    /\ pc[s] = "insert"
    /\ queue' = SendAll(DOMAIN clients,
                        ServerMessage(SYSTEM, None, <<username[s], " joined the chat">>))
    /\ nJoined' = [nJoined EXCEPT ![s] = @ + 1]
    /\ clients' = MapInsert(clients, username[s], s)
    /\ lastReg' = [lastReg EXCEPT ![username[s]] = s]
    /\ pc' = [pc EXCEPT ![s] = "joined"]
    /\ UNCHANGED <<username, wpc, rpc, out, nread, nLeft, bin, cred, spoof, crit>>

\* let (tx, rx) = unbounded_channel(); clients.lock().await.insert(username, tx.clone())
Register(s) ==
    /\ pc[s] = "insert"
    /\ clients' = MapInsert(clients, username[s], s)
    /\ lastReg' = [lastReg EXCEPT ![username[s]] = s]
    /\ pc' = [pc EXCEPT ![s] = "joined"]
    /\ UNCHANGED <<username, queue, wpc, rpc, out, nread, nJoined, nLeft, bin, cred, spoof, crit>>

\* broadcast_system("{username} joined the chat"), then the two spawns.
Joined(s) ==
    /\ pc[s] = "joined"
    /\ queue' = broadcast_system(<<username[s], " joined the chat">>)
    /\ nJoined' = [nJoined EXCEPT ![s] = @ + 1]
    /\ pc' = [pc EXCEPT ![s] = "run"]
    /\ wpc' = [wpc EXCEPT ![s] = "recv"]
    /\ rpc' = [rpc EXCEPT ![s] = "read"]
    /\ UNCHANGED <<username, clients, out, nread, nLeft, lastReg, bin, cred, spoof, crit>>

\* The senders of connection s's channel that are still alive: tx, a local of
\* the connection task, and the clone stored in the map.
Senders(s) ==
    (IF pc[s] # "done" THEN {"tx"} ELSE {}) \cup {u \in DOMAIN clients : clients[u] = s}

WriterRecv_ReturnOnError(s) ==
    /\ wpc[s] = "recv"
    /\ IF queue[s] # <<>>
       THEN /\ out' = [out EXCEPT ![s] = Append(@, Head(queue[s]))]
            /\ \E sent \in BOOLEAN :
                  /\ wpc' = [wpc EXCEPT ![s] = IF sent THEN "recv" ELSE "done"]
                  /\ queue' = [queue EXCEPT ![s] = IF sent THEN Tail(@) ELSE <<>>]
       ELSE /\ Senders(s) = {}
            /\ wpc' = [wpc EXCEPT ![s] = "remove"]
            /\ UNCHANGED <<queue, out>>
    /\ UNCHANGED <<pc, username, clients, rpc, nread, nJoined, nLeft, lastReg, bin, cred, spoof, crit>>

\* Writer task, one turn of `while let Some(msg) = rx.recv().await`:
\* a queued message is handed to write.send, which succeeds or fails; with
\* the queue empty recv returns None only when no sender is left, and
\* otherwise the task stays suspended.
WriterRecv(s) ==
    /\ wpc[s] = "recv"
    /\ IF queue[s] # <<>>
       THEN /\ queue' = [queue EXCEPT ![s] = Tail(@)]
            /\ out' = [out EXCEPT ![s] = Append(@, Head(queue[s]))]
            /\ \E sent \in BOOLEAN :
                  wpc' = [wpc EXCEPT ![s] = IF sent THEN "recv" ELSE "remove"]
       ELSE /\ Senders(s) = {}
            /\ wpc' = [wpc EXCEPT ![s] = "remove"]
            /\ UNCHANGED <<queue, out>>
    /\ UNCHANGED <<pc, username, clients, rpc, nread, nJoined, nLeft, lastReg, bin, cred, spoof, crit>>

\* writer_clients.lock().await.remove(&writer_username); the task returns and
\* rx is dropped with whatever it still held.
WriterRemove(s) ==
    /\ wpc[s] = "remove"
    /\ clients' = MapRemove(clients, username[s])
    /\ wpc' = [wpc EXCEPT ![s] = "done"]
    /\ queue' = [queue EXCEPT ![s] = <<>>]
    /\ UNCHANGED <<pc, username, rpc, out, nread, nJoined, nLeft, lastReg, bin, cred, spoof, crit>>

\* Chat frames read so far by the connections 1..n.
RECURSIVE TotalRead(_)
TotalRead(n) == IF n = 0 THEN 0 ELSE nread[n] + TotalRead(n - 1)

ReadStep_TrustFrom(s, f) ==
    /\ rpc[s] = "read"
    /\ TotalRead(NSess) < MaxFrames
    /\ nread' = [nread EXCEPT ![s] = @ + 1]
    /\ IF f.kind = "chat"
       THEN LET message == ServerMessage(IF f.from # None THEN f.from[1] ELSE username[s],
                                         f.to, f.content)
            IN queue' = IF bin = "main" THEN route_message(message)
                        ELSE route_message2(message)
       ELSE IF f.kind = "malformed" /\ bin = "main2"
       THEN queue' = decode_error_echo(username[s])
       ELSE UNCHANGED queue
    /\ spoof' = (spoof \/ Spoofs(s, f))
    /\ UNCHANGED <<pc, username, clients, wpc, rpc, out, nJoined, nLeft, lastReg, bin, cred, crit>>

ReadStep_StopOnMalformed(s, f) ==
    /\ rpc[s] = "read"
    /\ TotalRead(NSess) < MaxFrames
    /\ nread' = [nread EXCEPT ![s] = @ + 1]
    /\ IF f.kind = "chat"
       THEN LET message == ServerMessage(username[s], f.to, f.content)
            IN /\ queue' = IF bin = "main" THEN route_message(message)
                           ELSE route_message2(message)
               /\ UNCHANGED rpc
       ELSE IF f.kind = "malformed"
       THEN /\ queue' = IF bin = "main2" THEN decode_error_echo(username[s]) ELSE queue
            /\ rpc' = [rpc EXCEPT ![s] = "done"]
       ELSE UNCHANGED <<queue, rpc>>
    /\ spoof' = (spoof \/ Spoofs(s, f))
    /\ UNCHANGED <<pc, username, clients, wpc, out, nJoined, nLeft, lastReg, bin, cred, crit>>

\* Reader task, one turn of `while let Some(Ok(msg)) = read.next().await`
\* on frame f: a text frame that decodes is routed, one that does not is
\* logged (main.rs) or answered (main2.rs), any other frame is skipped.
ReadStep(s, f) ==
    /\ rpc[s] = "read"
    /\ TotalRead(NSess) < MaxFrames
    /\ nread' = [nread EXCEPT ![s] = @ + 1]
    /\ IF f.kind = "chat"
       THEN LET message == ServerMessage(username[s], f.to, f.content)
            IN queue' = IF bin = "main" THEN route_message(message)
                        ELSE route_message2(message)
       ELSE IF f.kind = "malformed" /\ bin = "main2"
       THEN queue' = decode_error_echo(username[s])
       ELSE UNCHANGED queue
    /\ spoof' = (spoof \/ Spoofs(s, f))
    /\ UNCHANGED <<pc, username, clients, wpc, rpc, out, nJoined, nLeft, lastReg, bin, cred, crit>>

ReaderFrame(s) == \E f \in ChatFrames(s) : ReadStep(s, f)

\* read.next() returned None or Some(Err(_)): the reader task returns.
ReaderEnd(s) ==
    /\ rpc[s] = "read"
    /\ rpc' = [rpc EXCEPT ![s] = "done"]
    /\ UNCHANGED <<pc, username, clients, queue, wpc, out, nread, nJoined, nLeft, lastReg, bin, cred, spoof, crit>>

\* tokio::join!(writer, reader) completed, then
\* broadcast_system("{username} left the chat"); the task returns.
Left(s) ==
    /\ pc[s] = "run"
    /\ wpc[s] = "done"
    /\ rpc[s] = "done"
    /\ queue' = broadcast_system(<<username[s], " left the chat">>)
    /\ nLeft' = [nLeft EXCEPT ![s] = @ + 1]
    /\ pc' = [pc EXCEPT ![s] = "done"]
    /\ UNCHANGED <<username, clients, wpc, rpc, out, nread, nJoined, lastReg, bin, cred, spoof, crit>>

Next ==
    \E s \in Sess :
        \/ Accept(s)
        \/ Authenticate(s)
        \/ Register(s)
        \/ Joined(s)
        \/ WriterRecv(s)
        \/ WriterRemove(s)
        \/ ReaderFrame(s)
        \/ ReaderEnd(s)
        \/ Left(s)

Spec == Init /\ [][Next]_vars

----------------------------------------------------------------------------
\* The router on a populated map.  The first n connections have connected
\* one after the other, each registered and announced before the next one
\* arrived, and every write duty has written what it was sent: the state
\* the tasks are in when n peers are connected and idle.  From there the
\* readers route frames and (main.rs) the connections are torn down.

\* The identities the connections can have authenticated as.
RouterNames ==
    {names \in [Sess -> Users] :
        \A s \in Sess : \E t \in Tokens(s) :
            extract_username_from_message(<<"token", t>>) = Some(names[s])}

\* The credential that resolves to identity u.
TokenOf(u) ==
    CHOOSE t \in {"token-alice", "token-bob", "token-charlie"} :
        extract_username_from_message(<<"token", t>>) = Some(u)

\* The "joined" announcements of connections t..e, in order.
RECURSIVE Joins(_, _, _)
Joins(names, t, e) ==
    IF t > e THEN <<>>
    ELSE <<ServerMessage(SYSTEM, None, <<names[t], " joined the chat">>)>>
         \o Joins(names, t + 1, e)

\* The last connection whose "joined" announcement reached connection s:
\* the one before the next connection that inserted the same identity.
LastSeen(names, s, n) ==
    LET later == {t \in (s + 1)..n : names[t] = names[s]}
    IN IF later = {} THEN n ELSE (CHOOSE t \in later : \A x \in later : t <= x) - 1

InitRouter ==
    \E n \in 1..NSess, names \in RouterNames, b \in {"main", "main2"} :
        LET on == 1..n
            owner(u) == CHOOSE s \in on : names[s] = u /\ \A x \in on : names[x] = u => x <= s
        IN /\ bin = b
           /\ pc = [s \in Sess |-> IF s \in on THEN "run" ELSE "idle"]
           /\ username = [s \in Sess |-> IF s \in on THEN names[s] ELSE ""]
           /\ clients = [u \in {names[s] : s \in on} |-> owner(u)]
           /\ lastReg = [u \in Users |-> IF u \in {names[s] : s \in on} THEN owner(u) ELSE 0]
           /\ queue = [s \in Sess |-> <<>>]
           /\ wpc = [s \in Sess |-> IF s \in on THEN "recv" ELSE "idle"]
           /\ rpc = [s \in Sess |-> IF s \in on THEN "read" ELSE "idle"]
           /\ out = [s \in Sess |->
                        IF s \in on
                        THEN (IF b = "main" THEN <<AuthSuccess>> ELSE <<>>)
                             \o Joins(names, s, LastSeen(names, s, n))
                        ELSE <<>>]
           /\ nread = [s \in Sess |-> 0]
           /\ nJoined = [s \in Sess |-> IF s \in on THEN 1 ELSE 0]
           /\ nLeft = [s \in Sess |-> 0]
           /\ cred = [s \in Sess |-> IF s \in on THEN TokenOf(names[s]) ELSE ""]
           /\ spoof = FALSE
           /\ crit = EmptyMap

NextRouter ==
    \E s \in Sess :
        \/ ReaderFrame(s)
        \/ bin = "main" /\ WriterRecv(s)
        \/ bin = "main" /\ WriterRemove(s)
        \/ bin = "main" /\ ReaderEnd(s)
        \/ bin = "main" /\ Left(s)

SpecRouter == InitRouter /\ [][NextRouter]_vars

----------------------------------------------------------------------------
\* The Mutex of the Clients map, step by step (main.rs).  Above, a critical
\* section is one action; here the lock().await, every turn of an iteration
\* made under the guard and the drop of the guard are steps of their own,
\* and the tasks of several connections compete for the lock.  A task is a
\* pair <<connection, role>>; crit maps the tasks inside a critical section
\* to what they are doing there:
\*   op     "insert", "remove", "get" (directed route_message), "iter"
\*          (broadcast route_message) or "values" (broadcast_system)
\*   msg    the message being sent, <<>> for insert and remove
\*   seen   the map as it was when the guard was obtained
\*   done   the keys the iteration has visited
Roles == {"conn", "writer", "reader"}
Tasks == Sess \X Roles

Inside(t) == t \in DOMAIN crit

LockFree_Always == TRUE

\* clients.lock().await completes when no MutexGuard of the map is alive.
LockFree == DOMAIN crit = {}

\* lock().await has returned the guard to task t, which starts op.
Enter(t, op, msg) ==
    /\ ~Inside(t)
    /\ LockFree
    /\ crit' = [x \in DOMAIN crit \cup {t} |->
                   IF x = t THEN [op |-> op, msg |-> msg, seen |-> clients, done |-> {}]
                   ELSE crit[x]]

\* The guard of task t is dropped.
Exit(t) == crit' = [x \in DOMAIN crit \ {t} |-> crit[x]]

\* The connections 1..n are registered and idle (as in InitRouter), the
\* others have authenticated and are about to insert.  The transport of
\* the connections in broken failed on the last frame written to it: their
\* writer task has left its loop and is about to remove.  The writes to the
\* transports do not touch the map and are not steps of this specification.
InitLock ==
    \E n \in 0..NSess, names \in RouterNames : \E broken \in SUBSET (1..n) :
        LET on == 1..n
            owner(u) == CHOOSE s \in on : names[s] = u /\ \A x \in on : names[x] = u => x <= s
        IN /\ bin = "main"
           /\ pc = [s \in Sess |-> IF s \in on THEN "run" ELSE "insert"]
           /\ username = [s \in Sess |-> names[s]]
           /\ clients = [u \in {names[s] : s \in on} |-> owner(u)]
           /\ lastReg = [u \in Users |-> IF u \in {names[s] : s \in on} THEN owner(u) ELSE 0]
           /\ queue = [s \in Sess |-> <<>>]
           /\ wpc = [s \in Sess |-> IF s \in broken THEN "remove"
                                     ELSE IF s \in on THEN "recv" ELSE "idle"]
           /\ rpc = [s \in Sess |-> IF s \in on THEN "read" ELSE "idle"]
           /\ out = [s \in Sess |->
                        <<AuthSuccess>> \o
                        (IF s \in on THEN Joins(names, s, LastSeen(names, s, n)) ELSE <<>>)]
           /\ nread = [s \in Sess |-> 0]
           /\ nJoined = [s \in Sess |-> IF s \in on THEN 1 ELSE 0]
           /\ nLeft = [s \in Sess |-> 0]
           /\ cred = [s \in Sess |-> TokenOf(names[s])]
           /\ spoof = FALSE
           /\ crit = EmptyMap

\* clients.lock().await of main.rs:85, then insert and the drop of the
\* temporary guard at the end of the statement.
LockInsert(s) ==
    /\ pc[s] = "insert"
    /\ Enter(<<s, "conn">>, "insert", <<>>)
    /\ UNCHANGED <<pc, username, clients, queue, wpc, rpc, out, nread, nJoined, nLeft, lastReg, bin, cred, spoof>>

DoInsert(s) ==
    /\ Inside(<<s, "conn">>) /\ crit[<<s, "conn">>].op = "insert"
    /\ clients' = MapInsert(clients, username[s], s)
    /\ lastReg' = [lastReg EXCEPT ![username[s]] = s]
    /\ pc' = [pc EXCEPT ![s] = "joined"]
    /\ Exit(<<s, "conn">>)
    /\ UNCHANGED <<username, queue, wpc, rpc, out, nread, nJoined, nLeft, bin, cred, spoof>>

\* broadcast_system: clients.lock().await of main.rs:172, for the "joined"
\* announcement (main.rs:86) or the "left" announcement (main.rs:124).
LockAnnounce(s) ==
    /\ \/ pc[s] = "joined"
       \/ pc[s] = "run" /\ wpc[s] = "done" /\ rpc[s] = "done"
    /\ Enter(<<s, "conn">>, "values",
             <<ServerMessage(SYSTEM, None,
                             <<username[s], IF pc[s] = "joined" THEN " joined the chat"
                                            ELSE " left the chat">>)>>)
    /\ UNCHANGED <<pc, username, clients, queue, wpc, rpc, out, nread, nJoined, nLeft, lastReg, bin, cred, spoof>>

\* route_message: the reader has decoded frame f; clients.lock().await of
\* main.rs:145.
LockRoute(s, f) ==
    /\ rpc[s] = "read"
    /\ TotalRead(NSess) < MaxLockFrames
    /\ f.kind = "chat"
    /\ Enter(<<s, "reader">>, IF f.to = None THEN "iter" ELSE "get",
             <<ServerMessage(username[s], f.to, f.content)>>)
    /\ nread' = [nread EXCEPT ![s] = @ + 1]
    /\ spoof' = (spoof \/ Spoofs(s, f))
    /\ UNCHANGED <<pc, username, clients, queue, wpc, rpc, out, nJoined, nLeft, lastReg, bin, cred>>

LockRouteFrame(s) == \E f \in ChatFrames(s) : LockRoute(s, f)

\* One turn of `for (username, tx) in clients_guard.iter()` (main.rs:155-159)
\* or of `for tx in clients.lock().await.values()` (main.rs:172-174): the
\* iterator yields an entry of the map it has not yielded yet.
IterStep(t) ==
    /\ Inside(t) /\ crit[t].op \in {"iter", "values"}
    /\ \E u \in DOMAIN clients \ crit[t].done :
          /\ queue' = IF crit[t].op = "iter" /\ u = crit[t].msg[1].from
                      THEN queue
                      ELSE SendAll({u}, crit[t].msg[1])
          /\ crit' = [crit EXCEPT ![t].done = @ \cup {u}]
    /\ UNCHANGED <<pc, username, clients, wpc, rpc, out, nread, nJoined, nLeft, lastReg, bin, cred, spoof>>

\* The iterator is exhausted and the guard dropped; a connection task goes
\* on to spawn its writer and reader (main.rs:91-121) or returns.
IterEnd(t) ==
    /\ Inside(t) /\ crit[t].op \in {"iter", "values"}
    /\ DOMAIN clients \ crit[t].done = {}
    /\ Exit(t)
    /\ IF t[2] = "conn" /\ pc[t[1]] = "joined"
       THEN /\ pc' = [pc EXCEPT ![t[1]] = "run"]
            /\ wpc' = [wpc EXCEPT ![t[1]] = "recv"]
            /\ rpc' = [rpc EXCEPT ![t[1]] = "read"]
            /\ nJoined' = [nJoined EXCEPT ![t[1]] = @ + 1]
            /\ UNCHANGED nLeft
       ELSE IF t[2] = "conn"
       THEN /\ pc' = [pc EXCEPT ![t[1]] = "done"]
            /\ nLeft' = [nLeft EXCEPT ![t[1]] = @ + 1]
            /\ UNCHANGED <<wpc, rpc, nJoined>>
       ELSE UNCHANGED <<pc, wpc, rpc, nJoined, nLeft>>
    /\ UNCHANGED <<username, clients, queue, out, nread, lastReg, bin, cred, spoof>>

\* `if let Some(tx) = clients_guard.get(target)` and the send (main.rs:149-151),
\* then the guard is dropped.
DoGet(t) ==
    /\ Inside(t) /\ crit[t].op = "get"
    /\ LET msg == crit[t].msg[1]
           target == msg.to[1]
       IN queue' = IF target \in DOMAIN clients THEN SendAll({target}, msg) ELSE queue
    /\ Exit(t)
    /\ UNCHANGED <<pc, username, clients, wpc, rpc, out, nread, nJoined, nLeft, lastReg, bin, cred, spoof>>

\* writer_clients.lock().await of main.rs:97, then remove; the guard is
\* dropped, the task returns and rx is dropped.
LockRemove(s) ==
    /\ wpc[s] = "remove"
    /\ Enter(<<s, "writer">>, "remove", <<>>)
    /\ UNCHANGED <<pc, username, clients, queue, wpc, rpc, out, nread, nJoined, nLeft, lastReg, bin, cred, spoof>>

DoRemove(s) ==
    /\ Inside(<<s, "writer">>) /\ crit[<<s, "writer">>].op = "remove"
    /\ clients' = MapRemove(clients, username[s])
    /\ wpc' = [wpc EXCEPT ![s] = "done"]
    /\ queue' = [queue EXCEPT ![s] = <<>>]
    /\ Exit(<<s, "writer">>)
    /\ UNCHANGED <<pc, username, rpc, out, nread, nJoined, nLeft, lastReg, bin, cred, spoof>>

NextLock ==
    \/ \E s \in Sess :
          \/ LockInsert(s)
          \/ DoInsert(s)
          \/ LockAnnounce(s)
          \/ LockRouteFrame(s)
          \/ LockRemove(s)
          \/ DoRemove(s)
          \/ ReaderEnd(s) /\ ~Inside(<<s, "reader">>)
    \/ \E t \in Tasks :
          \/ IterStep(t)
          \/ IterEnd(t)
          \/ DoGet(t)

SpecLock == InitLock /\ [][NextLock]_vars

----------------------------------------------------------------------------
\* Vocabulary of the claims.

\* Connection s authenticated and inserted its identity in the map.
Registered(s) == pc[s] \in {"joined", "run", "done"}

\* A duty of connection s has ended: the writer task left its loop, or the
\* reader task returned.
WriteEnded(s) == wpc[s] \in {"remove", "done"}
ReadEnded(s) == rpc[s] = "done"

\* Connection s is registered and neither duty has ended.
Live(s) == pc[s] \in {"joined", "run"} /\ ~WriteEnded(s) /\ ~ReadEnded(s)

\* The payloads of a transport record or a queue that were routed for a
\* peer (not SYSTEM announcements, not authentication notices).
IsChat(m) == "from" \in DOMAIN m /\ m.from # SYSTEM

\* The keys of the map whose value is the handle of connection s.
KeysOf(s) == {u \in DOMAIN clients : clients[u] = s}

----------------------------------------------------------------------------
\* C1 (as stated): for every connection that registered identity X, from the
\* moment both its duties have ended until it has announced its departure,
\* X is not a key of the map, whatever other connections do; and once it
\* has completed, exactly one "X left the chat" was broadcast for it.
C1_AbsentAfterTeardown ==
    \A s \in Sess :
        /\ (pc[s] = "run" /\ wpc[s] = "done" /\ rpc[s] = "done") =>
              username[s] \notin DOMAIN clients
        /\ (pc[s] = "done" /\ username[s] # "") => nLeft[s] = 1

\* C1 (amended): once both duties of a registered connection have ended, no
\* entry of the map points at its handle; it announces its departure at
\* most once, only after both duties ended, and exactly once by the time it
\* has completed.
C1_OwnEntryGoneLeftOnce ==
    \A s \in Sess :
        /\ (Registered(s) /\ wpc[s] = "done" /\ rpc[s] = "done") => KeysOf(s) = {}
        /\ nLeft[s] <= 1
        /\ nLeft[s] = 1 => (wpc[s] = "done" /\ rpc[s] = "done")
        /\ (pc[s] = "done" /\ username[s] # "") => nLeft[s] = 1

\* C1 witness: a connection completed its teardown while another connection
\* that authenticated as the same identity holds the entry.
C1_Witness ==
    \E s, t \in Sess :
        /\ s # t
        /\ pc[s] = "done" /\ nLeft[s] = 1
        /\ username[t] = username[s]
        /\ username[s] \in DOMAIN clients
        /\ clients[username[s]] = t

\* C2: an identity is a key of the map iff a registered connection that is
\* not yet torn down claims it; a connection whose duties both still run is
\* never without an entry for its identity.
C2_RegistryIffLive ==
    \A u \in Users :
        /\ u \in DOMAIN clients =>
              \E s \in Sess : username[s] = u /\ pc[s] \in {"joined", "run"}
        /\ (\E s \in Sess : username[s] = u /\ Live(s)) => u \in DOMAIN clients

\* C3: when two connections registered the same identity, the map's entry
\* for it points at the handle registered last for as long as that
\* connection is live.
C3_LastWriteWins ==
    \A u \in Users :
        LET s == lastReg[u]
        IN (/\ s # 0
            /\ Live(s)
            /\ \E t \in Sess : t # s /\ username[t] = u /\ Registered(t))
           => (u \in DOMAIN clients /\ clients[u] = s)

\* The message the read duty of connection s builds from a decoded frame f.
Routed(s, f) == ServerMessage(username[s], f.to, f.content)

\* How often m occurs in a sequence.
Count(seq, m) == Cardinality({i \in 1..Len(seq) : seq[i] = m})

\* A turn of the read duty of connection s leaves everything but the queues
\* and its own record of the frames it read as it was.
OnlyQueues(s) ==
    /\ UNCHANGED <<pc, username, clients, wpc, rpc, out, nJoined, nLeft, lastReg, bin, cred, crit>>
    /\ \A t \in Sess \ {s} : nread'[t] = nread[t]

\* C4: a message with to = None from identity A is enqueued exactly once on
\* the handle of every registered identity other than A, and on no other
\* handle: not on the handle registered as A, not on the sender's own.
C4_BroadcastFanOut ==
    [][\A s \in Sess : \A f \in ChatFrames(s) :
          (ReadStep(s, f) /\ f.kind = "chat" /\ f.to = None) =>
              \A h \in Sess :
                  queue'[h] =
                      IF \E u \in DOMAIN clients : u # username[s] /\ clients[u] = h
                      THEN Append(queue[h], Routed(s, f))
                      ELSE queue[h]
      ]_vars

\* C4 witness: three identities are registered, and a broadcast of one of
\* them is queued once on each of the two other handles and not on its own.
C4_Witness ==
    \E s \in Sess :
        LET m == ServerMessage(username[s], None, <<ToString(s), "1">>)
        IN /\ Cardinality(DOMAIN clients) = 3
           /\ KeysOf(s) = {username[s]}
           /\ \A h \in Sess \ {s} : KeysOf(h) # {} /\ Count(queue[h], m) = 1
           /\ Count(queue[s], m) = 0

\* C5 (as stated): a message with to = B is enqueued on B's handle and on no
\* other when B is registered, and on no handle at all when it is not; the
\* turn changes nothing else.
C5_DirectedOnly ==
    [][\A s \in Sess : \A f \in ChatFrames(s) :
          (ReadStep(s, f) /\ f.kind = "chat" /\ f.to # None) =>
              /\ OnlyQueues(s)
              /\ IF f.to[1] \in DOMAIN clients
                 THEN queue' = [queue EXCEPT ![clients[f.to[1]]] = Append(@, Routed(s, f))]
                 ELSE queue' = queue
      ]_vars

\* The answer of main2.rs to a directed message whose target is missing.
NotFound(s, f) ==
    ServerMessage(SYSTEM, Some(username[s]), <<"User '", f.to[1], "' not found or offline">>)

\* C5 (amended): a message with to = B, B registered, is enqueued on B's
\* handle and on no other.  With B not registered main.rs enqueues nothing;
\* main2.rs enqueues nothing of the message but one SYSTEM "not found"
\* message on the handle registered under the sender's identity, if there is
\* one.  Either way the turn changes nothing else.
C5_DirectedOrEcho ==
    [][\A s \in Sess : \A f \in ChatFrames(s) :
          (ReadStep(s, f) /\ f.kind = "chat" /\ f.to # None) =>
              /\ OnlyQueues(s)
              /\ IF f.to[1] \in DOMAIN clients
                 THEN queue' = [queue EXCEPT ![clients[f.to[1]]] = Append(@, Routed(s, f))]
                 ELSE IF bin = "main2" /\ username[s] \in DOMAIN clients
                 THEN queue' = [queue EXCEPT
                                   ![clients[username[s]]] = Append(@, NotFound(s, f))]
                 ELSE queue' = queue
      ]_vars

\* C5 witness: in main.rs, with three identities registered, one directed
\* message sits on its target's handle and on no other, and a second frame
\* of the same sender, to an identity that is not registered, is on no
\* handle.
C5_Witness ==
    \E s, b \in Sess :
        LET m == ServerMessage(username[s], Some(username[b]), <<ToString(s), "1">>)
        IN /\ bin = "main"
           /\ s # b
           /\ Cardinality(DOMAIN clients) = 3
           /\ KeysOf(b) = {username[b]}
           /\ queue[b] = <<m>>
           /\ \A h \in Sess \ {b} : queue[h] = <<>>
           /\ nread[s] = 2
           /\ \A h \in Sess : \A i \in 1..Len(out[h]) :
                 IsChat(out[h][i]) => out[h][i] = m

\* The number k of the frame that carried content <<"s", "k">>.
FrameNo(c) == CHOOSE k \in 1..(MaxFrames + 1) : ToString(k) = c[2]

\* Everything connection b's handle has carried, oldest first, as far as
\* the state records it: what the write duty handed to the transport, then
\* what is still queued.
Carried(b) == out[b] \o queue[b]

\* C6: the payloads one connection's read duty routed to a recipient are
\* queued on, and written by, the recipient in the order they were routed:
\* among the payloads of one sender connection, frame numbers increase.
C6_OrderPreserved ==
    \A b \in Sess :
        \A i, j \in 1..Len(Carried(b)) :
            LET m1 == Carried(b)[i]
                m2 == Carried(b)[j]
            IN (i < j /\ IsChat(m1) /\ IsChat(m2) /\ m1.content[1] = m2.content[1])
               => FrameNo(m1.content) < FrameNo(m2.content)

\* C6 witness: a recipient wrote two payloads of one other connection to its
\* transport with a SYSTEM announcement between them.
C6_Witness ==
    \E b \in Sess :
        \E i, j, k \in 1..Len(out[b]) :
            /\ i < k /\ k < j
            /\ IsChat(out[b][i]) /\ IsChat(out[b][j])
            /\ "from" \in DOMAIN out[b][k] /\ out[b][k].from = SYSTEM
            /\ out[b][i].content[1] = out[b][j].content[1]
            /\ out[b][i].content[1] # ToString(b)

\* The steps the runtime takes on its own once they are possible: lock
\* acquisitions and channel receives complete, spawned tasks are scheduled.
\* Frames arriving, streams ending and connections arriving are the peers'.
Fairness ==
    \A s \in Sess :
        /\ WF_vars(Register(s))
        /\ WF_vars(Joined(s))
        /\ WF_vars(WriterRecv(s))
        /\ WF_vars(WriterRemove(s))
        /\ WF_vars(Left(s))

FairSpec == Spec /\ Fairness

\* C7: once the read duty of a registered connection has ended, the
\* connection eventually completes: the write duty ends, the identity is
\* removed and the departure is announced.
C7_TeardownCompletes ==
    \A s \in Sess : (rpc[s] = "done") ~> (pc[s] = "done")

\* C8: a failure or the teardown of one connection never removes or
\* replaces a map entry whose handle belongs to another connection, never
\* ends another connection's duties, and never takes anything from another
\* connection's queue.
FailureStep(s) ==
    \/ \E f \in FirstFrames(s) : AuthStep(s, f) /\ pc'[s] = "done"
    \/ \E f \in ChatFrames(s) : ReadStep(s, f) /\ f.kind # "chat"
    \/ ReaderEnd(s)
    \/ WriterRecv(s) /\ wpc'[s] = "remove"
    \/ WriterRemove(s)
    \/ Left(s)

C8_Isolated(s) ==
    \A t \in Sess \ {s} :
        /\ \A u \in KeysOf(t) : u \in DOMAIN clients' /\ clients'[u] = t
        /\ wpc'[t] = wpc[t] /\ rpc'[t] = rpc[t] /\ pc'[t] = pc[t]
        /\ Len(queue'[t]) >= Len(queue[t])

C8_FailureIsolation ==
    [][\A s \in Sess : FailureStep(s) => C8_Isolated(s)]_vars

\* The first frame is a well-formed credential frame whose credential the
\* resolver knows.
ValidCredential(f) ==
    /\ f.kind = "text"
    /\ Len(f.body) = 2
    /\ f.body[1] = "token"
    /\ f.body[2] \in {"token-alice", "token-bob", "token-charlie"}

\* Connection s ended without an identity: the handshake or the
\* authentication failed.
Rejected(s) == pc[s] = "done" /\ username[s] = ""

\* C9: a connection whose authentication fails ends there, never inserts
\* into or removes from the map, never has a handle that receives a
\* message, and is never announced as joined or left.
C9_NoEntryOnAuthFailure ==
    [][/\ \A s \in Sess : \A f \in FirstFrames(s) :
             (AuthStep(s, f) /\ ~ValidCredential(f)) =>
                 /\ pc'[s] = "done" /\ username'[s] = ""
                 /\ clients' = clients /\ queue' = queue /\ lastReg' = lastReg
       /\ \A s \in Sess :
             Rejected(s) =>
                 /\ Rejected(s)'
                 /\ (KeysOf(s) = {})' /\ (\A u \in Users : lastReg[u] # s)'
                 /\ queue'[s] = <<>> /\ wpc'[s] = "idle" /\ rpc'[s] = "idle"
                 /\ nJoined'[s] = 0 /\ nLeft'[s] = 0
                 /\ \A i \in 1..Len(out'[s]) : "from" \notin DOMAIN out'[s][i]
      ]_vars

\* C9 witness: a connection was rejected on its credential while another
\* connection is registered and chat traffic has been routed.
C9_Witness ==
    \E s, t \in Sess :
        /\ Rejected(s) /\ out[s] = <<AuthFailed>>
        /\ KeysOf(t) # {}
        /\ \E i \in 1..Len(out[t]) : IsChat(out[t][i])

\* C10: every authentication failure is answered with an auth_failed notice
\* before the task returns, and auth_success is written only for a
\* credential the resolver accepts.
C10_NoticeOnEveryFailure ==
    [][\A s \in Sess : \A f \in FirstFrames(s) :
          AuthStep(s, f) =>
              /\ ~ValidCredential(f) => out'[s] = Append(out[s], AuthFailed)
              /\ (AuthSuccess \in {out'[s][i] : i \in 1..Len(out'[s])})
                    => ValidCredential(f)
      ]_vars

\* The answer of main2.rs to a text frame that does not decode.
InvalidFormat(s) ==
    ServerMessage(SYSTEM, Some(username[s]), <<"Invalid message format">>)

\* C11: a text frame that does not decode as a ChatMessage does not end the
\* session: the read duty stays in its loop, the map and both tasks of every
\* connection are as they were, nothing is routed for the frame (main2.rs
\* answers the sender on the handle registered under its identity), and the
\* next frame of the connection is read by the same loop that routes.
C11_MalformedContinues ==
    [][\A s \in Sess : \A f \in ChatFrames(s) :
          (ReadStep(s, f) /\ f.kind = "malformed") =>
              /\ rpc[s] = "read" /\ rpc'[s] = "read"
              /\ OnlyQueues(s)
              /\ IF bin = "main2" /\ username[s] \in DOMAIN clients
                 THEN queue' = [queue EXCEPT
                                   ![clients[username[s]]] = Append(@, InvalidFormat(s))]
                 ELSE queue' = queue
      ]_vars

\* C11 witness: in main2.rs the first frame of a connection did not decode
\* (its answer is on the connection's own handle) and its second frame, a
\* broadcast, is on the handle of another connection.
C11_Witness ==
    \E s, b \in Sess :
        /\ s # b
        /\ bin = "main2"
        /\ nread[s] = 2
        /\ KeysOf(s) = {username[s]}
        /\ queue[s] = <<InvalidFormat(s)>>
        /\ queue[b] = <<ServerMessage(username[s], None, <<ToString(s), "2">>)>>

\* HashMap::get on the Clients map.
Lookup(u) == IF u \in DOMAIN clients THEN Some(clients[u]) ELSE None

\* C12 (as stated): a registration of (X, h) makes the lookup of X return h,
\* and from then on the only change of what the lookup of X returns is the
\* removal of X.
C12_LookupUntilRemoval ==
    [][\A u \in Users :
          /\ \A s \in Sess : (Register(s) /\ username[s] = u) => Lookup(u)' = Some(s)
          /\ (Lookup(u) # None /\ Lookup(u)' # Lookup(u)) => Lookup(u)' = None
      ]_vars

\* C12 (amended): a registration of (X, h) makes the lookup of X return h,
\* and what the lookup of X returns changes only by an insert of X made by
\* a connection that authenticated as X (the lookup then returns that
\* connection's handle) or by the removal of X made by the write duty of a
\* connection that authenticated as X (the lookup then returns nothing).
C12_LookupUntilRemovalOrInsert ==
    [][\A u \in Users :
          /\ \A s \in Sess : (Register(s) /\ username[s] = u) => Lookup(u)' = Some(s)
          /\ Lookup(u)' # Lookup(u) =>
                \/ \E s \in Sess :
                      /\ username[s] = u /\ pc[s] = "insert" /\ pc'[s] = "joined"
                      /\ Lookup(u)' = Some(s)
                \/ \E s \in Sess :
                      /\ username[s] = u /\ wpc[s] = "remove" /\ wpc'[s] = "done"
                      /\ Lookup(u)' = None
      ]_vars

\* C12 witness: a connection registered an identity whose entry has stayed
\* its own while a frame was routed and while another connection, which
\* registered another identity, wrote, failed and removed its entry.
C12_Witness ==
    \E s, t \in Sess :
        /\ s # t
        /\ Live(s) /\ Lookup(username[s]) = Some(s)
        /\ username[t] # "" /\ username[t] # username[s]
        /\ wpc[t] = "done" /\ Lookup(username[t]) = None
        /\ nread[s] + nread[t] >= 1

\* C13: the entry of a registered connection is removed by whichever of its
\* duties ends first: once the read duty has ended, or the write duty has
\* returned, no entry of the map points at the connection's handle.
C13_RemovedByFirstEnding ==
    \A s \in Sess :
        (Registered(s) /\ (ReadEnded(s) \/ wpc[s] = "done")) => KeysOf(s) = {}

\* The task t is in the middle of a fan-out: its iteration has visited
\* some of the entries and not all.
Partway(t) ==
    /\ Inside(t) /\ crit[t].op \in {"iter", "values"}
    /\ crit[t].done # {} /\ crit[t].done # DOMAIN crit[t].seen

\* C14: at most one task is inside a critical section of the map at any
\* time; while a task is inside, the map is what it was when the task got
\* the guard, except for the task's own insert or remove, which is applied
\* in one step as the task leaves; every turn of a fan-out sends to the
\* handle that the map of that instant holds for a key not yet visited (or
\* skips the sender's own key), and the fan-out ends having visited exactly
\* the keys of that map.
C14_RegistryAtomic ==
    [][/\ Cardinality(DOMAIN crit') <= 1
       /\ \A t \in DOMAIN crit' :
             clients' = crit'[t].seen /\ crit'[t].done \subseteq DOMAIN crit'[t].seen
       /\ \A t \in DOMAIN crit :
             /\ t \in DOMAIN crit' =>
                   /\ clients' = clients /\ crit'[t].seen = crit[t].seen
                   /\ crit'[t].done # crit[t].done =>
                         \E u \in DOMAIN crit[t].seen \ crit[t].done :
                             /\ crit'[t].done = crit[t].done \cup {u}
                             /\ queue' =
                                   IF crit[t].op = "iter" /\ u = crit[t].msg[1].from
                                   THEN queue
                                   ELSE [queue EXCEPT ![crit[t].seen[u]] =
                                            Append(@, crit[t].msg[1])]
             /\ (t \notin DOMAIN crit' /\ crit[t].op \in {"iter", "values"}) =>
                   (crit[t].done = DOMAIN crit[t].seen /\ clients' = crit[t].seen)
             /\ (t \notin DOMAIN crit' /\ crit[t].op = "get") => clients' = crit[t].seen
       /\ clients' # clients =>
             \E t \in DOMAIN crit :
                 t \notin DOMAIN crit' /\ crit[t].op \in {"insert", "remove"}
      ]_vars

\* C14 witness: a broadcast is in the middle of its fan-out while the
\* writer task of one connection waits for the lock to remove its entry and
\* the task of another connection waits for it to insert.
C14_Witness ==
    \E t \in Tasks, s, r \in Sess :
        /\ Partway(t) /\ crit[t].op = "iter"
        /\ wpc[s] = "remove" /\ ~Inside(<<s, "writer">>)
        /\ pc[r] = "insert" /\ ~Inside(<<r, "conn">>)

\* The frames connection s has handed to its transport.
Written(s) == {out[s][i] : i \in 1..Len(out[s])}

\* C16: an entry pointing at a connection's handle is put in the map by one
\* step only, taken after auth_success was written for the connection and
\* before its "joined" announcement and before its writer or reader task
\* exists; the connection never comes back to that step; and the
\* announcement, the tasks' first steps and the departure all come after it.
C16_InsertBeforeAnnounceAndDuties ==
    [][\A s \in Sess :
          /\ ~(KeysOf(s)' \subseteq KeysOf(s)) =>
                /\ pc[s] = "insert" /\ pc'[s] = "joined"
                /\ KeysOf(s)' = {username[s]} /\ username[s] \in Users
                /\ AuthSuccess \in Written(s)
                /\ nJoined[s] = 0 /\ nJoined'[s] = 0 /\ nLeft'[s] = 0
                /\ wpc[s] = "idle" /\ wpc'[s] = "idle"
                /\ rpc[s] = "idle" /\ rpc'[s] = "idle"
                /\ nread'[s] = 0
          /\ pc'[s] = "insert" => pc[s] \in {"auth", "insert"}
          /\ (pc[s] = "insert" /\ pc'[s] # "insert") =>
                (pc'[s] = "joined" /\ KeysOf(s)' = {username[s]})
          /\ (\/ nJoined'[s] # nJoined[s] \/ nLeft'[s] # nLeft[s]
              \/ wpc'[s] # wpc[s] \/ rpc'[s] # rpc[s] \/ nread'[s] # nread[s])
                => Registered(s)
      ]_vars

\* C16 witness: a connection is registered, has announced itself once, its
\* write duty has written the announcement and its read duty has read a
\* frame.
C16_Witness ==
    \E s \in Sess :
        /\ pc[s] = "run" /\ KeysOf(s) = {username[s]}
        /\ nJoined[s] = 1
        /\ nread[s] >= 1
        /\ Len(out[s]) >= 2 /\ out[s][1] = AuthSuccess
        /\ out[s][2] = ServerMessage(SYSTEM, None, <<username[s], " joined the chat">>)

\* C19 (main.rs): every handle in the map is open: the receiving half of
\* its channel has not been dropped.  A connection whose writer task has
\* returned has no entry pointing at its handle, so no send made through
\* the map fails.
C19_RegisteredHandlesOpen ==
    /\ \A u \in DOMAIN clients : RxAlive(clients[u])
    /\ \A s \in Sess : wpc[s] = "done" => KeysOf(s) = {}

\* C19 witness: two connections registered the same identity, the writer
\* task of one of them has returned and dropped its queue, and the other's
\* handle is in the map.
C19_Witness ==
    \E s, t \in Sess :
        /\ s # t
        /\ username[s] = username[t] /\ username[s] # ""
        /\ wpc[s] = "done"
        /\ KeysOf(t) = {username[t]} /\ wpc[t] = "recv"

\* The announcements made for connection s.
JoinedMsg(s) == ServerMessage(SYSTEM, None, <<username[s], " joined the chat">>)
LeftMsg(s) == ServerMessage(SYSTEM, None, <<username[s], " left the chat">>)

\* An announcement m is enqueued once on every handle that is in the map
\* and on no other handle.
Announced(m) ==
    \A h \in Sess :
        queue'[h] = IF KeysOf(h) # {} THEN Append(queue[h], m) ELSE queue[h]

\* C20 (as stated): an announcement is enqueued on every handle in the map
\* at that moment and on no other; the "joined" announcement of a
\* connection is enqueued on that connection's own handle; the "left"
\* announcement only on handles in the map after the teardown.
C20_AnnouncedToAllAndSelf ==
    [][\A s \in Sess :
          /\ Joined(s) => (Announced(JoinedMsg(s)) /\ queue'[s] = Append(queue[s], JoinedMsg(s)))
          /\ Left(s) => Announced(LeftMsg(s))
      ]_vars

\* C20 (amended): an announcement is enqueued once on every handle in the
\* map at that moment, under whatever identity, and on no other; so the
\* "joined" announcement of a connection is on its own handle exactly when
\* that handle is still in the map, and the "left" announcement never is on
\* the leaving connection's handle.
C20_AnnouncedToAllRegistered ==
    [][\A s \in Sess :
          /\ Joined(s) =>
                /\ Announced(JoinedMsg(s))
                /\ Lookup(username[s]) = Some(s) => queue'[s] = Append(queue[s], JoinedMsg(s))
                /\ KeysOf(s) = {} => queue'[s] = queue[s]
          /\ Left(s) => (Announced(LeftMsg(s)) /\ queue'[s] = queue[s])
      ]_vars

\* C20 witness: a connection has written its own "joined" announcement, and
\* the connection that stayed has written that "joined" and the "left" of
\* the one that is gone.
C20_Witness ==
    \E s, t \in Sess :
        /\ s # t
        /\ pc[s] = "done" /\ nLeft[s] = 1
        /\ JoinedMsg(s) \in Written(s)
        /\ username[t] # username[s] /\ KeysOf(t) = {username[t]}
        /\ JoinedMsg(s) \in Written(t) /\ LeftMsg(s) \in Written(t)

\* C17: no connection is ever given the identity "SYSTEM" and "SYSTEM" is
\* never a key of the map, whatever credentials the peers present.
C17_SystemNeverAssigned ==
    /\ SYSTEM \notin DOMAIN clients
    /\ \A s \in Sess : username[s] # SYSTEM

\* C17 witness: a peer presented "SYSTEM" or "token-SYSTEM" as its
\* credential and was turned away with auth_failed, while another
\* connection is registered.
C17_Witness ==
    \E s, t \in Sess :
        /\ cred[s] \in {"SYSTEM", "token-SYSTEM"}
        /\ Rejected(s) /\ out[s] = <<AuthFailed>>
        /\ KeysOf(t) # {}

\* The content of a payload was written by a peer (the peer of connection
\* s sends <<"s", "k">>), and the connection whose read duty routed it.
PeerContent(m) == \E s \in Sess : m.content[1] = ToString(s)
Sender(m) == CHOOSE s \in Sess : m.content[1] = ToString(s)

\* The texts the server itself puts in a SYSTEM message.
ServerText(c) ==
    \/ Len(c) = 2 /\ c[1] \in Users /\ c[2] \in {" joined the chat", " left the chat"}
    \/ Len(c) = 3 /\ c[1] = "User '" /\ c[3] = "' not found or offline"
    \/ c = <<"Invalid message format">>

\* C18: every payload a handle has carried is either a SYSTEM message whose
\* text the server made, or a message whose from is the identity under
\* which the connection that read its frame authenticated, whatever the
\* frame said about its sender.
C18_SenderAuthentic ==
    \A h \in Sess : \A i \in 1..Len(Carried(h)) :
        LET m == Carried(h)[i]
        IN "from" \in DOMAIN m =>
              IF PeerContent(m)
              THEN m.from = username[Sender(m)] /\ m.from # SYSTEM
              ELSE m.from = SYSTEM /\ ServerText(m.content)

\* C18 witness: the only frame read so far named a sender other than the
\* identity of the connection that sent it, and the payload routed for it
\* is on another connection's handle with the connection's identity as from.
C18_Witness ==
    \E s, h \in Sess :
        /\ s # h
        /\ spoof /\ TotalRead(NSess) = 1 /\ nread[s] = 1
        /\ \E i \in 1..Len(Carried(h)) :
              /\ IsChat(Carried(h)[i])
              /\ Carried(h)[i].content = <<ToString(s), "1">>
              /\ Carried(h)[i].from = username[s]

====
